---------------------------- MODULE Spec2Model ----------------------------
(***************************************************************************)
(* Garage payment tracking: the FileReaderService (column detection and    *)
(* record normalisation), the PaymentTrackerService (month-end adjustment, *)
(* payment matching, status classification, report and summary) and the    *)
(* /generate endpoint that drives them.                                    *)
(*                                                                         *)
(* Text is a sequence of one-character strings.  A Cyrillic letter is      *)
(* written as the token "ru_<translit>" (lower case) or "RU_<TRANSLIT>"    *)
(* (upper case); "nbsp" is U+00A0.  Amounts are integers counting          *)
(* hundredths, dates are records [year, month, day].  An optional value is *)
(* a sequence: None is <<>>, a present value x is <<x>>.                   *)
(***************************************************************************)
EXTENDS Integers, Sequences, FiniteSets, TLC

VARIABLES
    reader_rent_data,       \* FileReaderService.rent_data (raw rent table)
    bank_statement_data,    \* FileReaderService.bank_statement_data
    processed_rent_data,    \* FileReaderService.processed_rent_data
    processed_bank_data,    \* FileReaderService.processed_bank_data
    rent_data,              \* PaymentTrackerService.rent_data
    bank_data,              \* PaymentTrackerService.bank_data
    payment_report,         \* PaymentTrackerService.payment_report
    pc,                     \* position of the /generate handler
    processed_rent,         \* the handler's local processed_rent
    processed_bank,         \* the handler's local processed_bank
    last                    \* the last call: operation, arguments, outcome

vars == <<reader_rent_data, bank_statement_data, processed_rent_data,
          processed_bank_data, rent_data, bank_data, payment_report,
          pc, processed_rent, processed_bank, last>>

readerVars == <<reader_rent_data, bank_statement_data, processed_rent_data,
                processed_bank_data>>

trackerVars == <<rent_data, bank_data, payment_report>>

handlerVars == <<pc, processed_rent, processed_bank>>

None == <<>>

Some(x) == <<x>>

-----------------------------------------------------------------------------
(* Text *)

Digits == {"0", "1", "2", "3", "4", "5", "6", "7", "8", "9"}

DigitSeq == <<"0", "1", "2", "3", "4", "5", "6", "7", "8", "9">>

DigitVal(c) == (CHOOSE i \in 1..10 : DigitSeq[i] = c) - 1

\* Python's \s and str.isspace for the characters of the model.
Whitespace == {" ", "nbsp"}

UpperSeq ==
    <<"A", "B", "C", "D", "E", "F", "G", "H", "I", "J", "K", "L", "M",
      "N", "O", "P", "Q", "R", "S", "T", "U", "V", "W", "X", "Y", "Z",
      "RU_A", "RU_B", "RU_V", "RU_G", "RU_D", "RU_E", "RU_ZH", "RU_Z",
      "RU_I", "RU_J", "RU_K", "RU_L", "RU_M", "RU_N", "RU_O", "RU_P",
      "RU_R", "RU_S", "RU_T", "RU_U", "RU_F", "RU_H", "RU_C", "RU_CH",
      "RU_SH", "RU_SCH", "RU_HARD", "RU_Y", "RU_SOFT", "RU_EH", "RU_YU",
      "RU_YA">>

LowerSeq ==
    <<"a", "b", "c", "d", "e", "f", "g", "h", "i", "j", "k", "l", "m",
      "n", "o", "p", "q", "r", "s", "t", "u", "v", "w", "x", "y", "z",
      "ru_a", "ru_b", "ru_v", "ru_g", "ru_d", "ru_e", "ru_zh", "ru_z",
      "ru_i", "ru_j", "ru_k", "ru_l", "ru_m", "ru_n", "ru_o", "ru_p",
      "ru_r", "ru_s", "ru_t", "ru_u", "ru_f", "ru_h", "ru_c", "ru_ch",
      "ru_sh", "ru_sch", "ru_hard", "ru_y", "ru_soft", "ru_eh", "ru_yu",
      "ru_ya">>

\* str.lower(), one character
LowerChar(c) ==
    IF \E i \in 1..Len(UpperSeq) : UpperSeq[i] = c
    THEN LowerSeq[CHOOSE i \in 1..Len(UpperSeq) : UpperSeq[i] = c]
    ELSE c

\* str.lower()
Lower(s) == [i \in 1..Len(s) |-> LowerChar(s[i])]

\* k in s (substring)
Contains(s, k) ==
    \E i \in 1..(Len(s) - Len(k) + 1) : SubSeq(s, i, i + Len(k) - 1) = k

\* any(name in col_lower for name in names)
ContainsAny(s, names) == \E j \in 1..Len(names) : Contains(s, names[j])

\* str.strip()
RECURSIVE LStrip(_)
LStrip(s) ==
    IF Len(s) > 0 /\ Head(s) \in Whitespace THEN LStrip(Tail(s)) ELSE s

RECURSIVE RStrip(_)
RStrip(s) ==
    IF Len(s) > 0 /\ s[Len(s)] \in Whitespace
    THEN RStrip(SubSeq(s, 1, Len(s) - 1))
    ELSE s

Strip(s) == RStrip(LStrip(s))

\* str.replace(a, b) for a single character a and a text b
RECURSIVE Replace(_, _, _)
Replace(s, a, b) ==
    IF Len(s) = 0 THEN <<>>
    ELSE (IF Head(s) = a THEN b ELSE <<Head(s)>>) \o Replace(Tail(s), a, b)

\* the value of a run of digits
RECURSIVE DigitsVal(_)
DigitsVal(s) ==
    IF Len(s) = 0 THEN 0
    ELSE 10 * DigitsVal(SubSeq(s, 1, Len(s) - 1)) + DigitVal(s[Len(s)])

AllDigits(s) == \A i \in 1..Len(s) : s[i] \in Digits

\* the length of the longest prefix of s[from..] whose characters are in cls
RECURSIVE RunLen(_, _, _)
RunLen(s, from, cls) ==
    IF from <= Len(s) /\ s[from] \in cls
    THEN 1 + RunLen(s, from + 1, cls)
    ELSE 0

-----------------------------------------------------------------------------
(* Calendar: datetime.date and calendar.monthrange *)

IsLeap(y) == y % 4 = 0 /\ (y % 100 # 0 \/ y % 400 = 0)

\* calendar.monthrange(year, month)[1]
LastDayOfMonth(year, month) ==
    IF month = 2 THEN (IF IsLeap(year) THEN 29 ELSE 28)
    ELSE IF month \in {4, 6, 9, 11} THEN 30 ELSE 31

Date(y, m, d) == [year |-> y, month |-> m, day |-> d]

\* what the date constructor and strptime accept
IsValidDate(y, m, d) ==
    /\ y \in 1..9999
    /\ m \in 1..12
    /\ d \in 1..LastDayOfMonth(y, m)

DaysBeforeYear(y) ==
    (y - 1) * 365 + ((y - 1) \div 4) - ((y - 1) \div 100) + ((y - 1) \div 400)

RECURSIVE DaysBeforeMonth(_, _)
DaysBeforeMonth(y, m) ==
    IF m = 1 THEN 0
    ELSE DaysBeforeMonth(y, m - 1) + LastDayOfMonth(y, m - 1)

\* date.toordinal()
ToOrdinal(dt) ==
    DaysBeforeYear(dt.year) + DaysBeforeMonth(dt.year, dt.month) + dt.day

\* (a - b).days
DaysBetween(a, b) == ToOrdinal(a) - ToOrdinal(b)

Abs(n) == IF n < 0 THEN 0 - n ELSE n

-----------------------------------------------------------------------------
(* Cells and tables.  A cell is a record of one shape whatever it holds:   *)
(* kind "text" (a str), "num" (a number, in hundredths), "date" (a         *)
(* datetime.date), "timestamp" (a datetime with a time of day) or "nan"    *)
(* (an empty spreadsheet cell).                                            *)

NoDate == [year |-> 0, month |-> 0, day |-> 0]

TextCell(s) == [kind |-> "text", text |-> s, num |-> 0, date |-> NoDate]

NumCell(n) == [kind |-> "num", text |-> <<>>, num |-> n, date |-> NoDate]

DateCell(dt) == [kind |-> "date", text |-> <<>>, num |-> 0, date |-> dt]

TimestampCell(dt) == [kind |-> "timestamp", text |-> <<>>, num |-> 0, date |-> dt]

NanCell == [kind |-> "nan", text |-> <<>>, num |-> 0, date |-> NoDate]

\* A DataFrame with labelled columns: the labels and the rows, each row a
\* sequence of cells, one per column.
DataFrame(columns, rows) == [columns |-> columns, rows |-> rows]

\* pd.DataFrame() and pd.DataFrame([]): no columns, no rows
EmptyFrame == DataFrame(<<>>, <<>>)

\* the positions of the columns labelled name
ColumnsNamed(df, name) == {i \in 1..Len(df.columns) : df.columns[i] = name}

HasColumn(df, name) == ColumnsNamed(df, name) # {}

\* row[name], for a label that names one column
Field(df, row, name) == row[CHOOSE i \in ColumnsNamed(df, name) : TRUE]

\* the canonical column labels, as text
ColGarageName == <<"g", "a", "r", "a", "g", "e", "_", "n", "a", "m", "e">>

ColPaymentAmount == 
    <<"p", "a", "y", "m", "e", "n", "t", "_", "a", "m", "o", "u", "n", "t">>

ColPaymentDate == 
    <<"p", "a", "y", "m", "e", "n", "t", "_", "d", "a", "t", "e">>

ColTenantName == <<"t", "e", "n", "a", "n", "t", "_", "n", "a", "m", "e">>

-----------------------------------------------------------------------------
(* PaymentStatus *)

RECEIVED == "RECEIVED"

OVERDUE == "OVERDUE"

NOT_DUE == "NOT_DUE"

-----------------------------------------------------------------------------
(* PaymentTrackerService: the pure parts *)

\* _adjust_payment_date
AdjustPaymentDate(payment_date) ==
    LET year == payment_date.year
        month == payment_date.month
        day == payment_date.day
        last_day == LastDayOfMonth(year, month)
    IN  IF day \in {29, 30, 31} /\ day > last_day
        THEN Date(year, month, last_day)
        ELSE payment_date

\* the loop of _find_matching_payment over the rows of matching_amount
RECURSIVE FirstWithinTolerance(_, _, _)
FirstWithinTolerance(matching_amount, expected_date, tolerance_days) ==
    IF Len(matching_amount) = 0 THEN None
    ELSE LET payment == Head(matching_amount)
             date_diff == Abs(DaysBetween(payment.payment_date, expected_date))
         IN  IF date_diff <= tolerance_days
             THEN Some([payment_date |-> payment.payment_date,
                        amount |-> payment.amount,
                        description |-> payment.description])
             ELSE FirstWithinTolerance(Tail(matching_amount), expected_date,
                                       tolerance_days)

\* _find_matching_payment with an amount tolerance of one hundredth
FindMatchingPayment_NearAmount(bank, garage_name, expected_amount, expected_date, tolerance_days) ==
    FirstWithinTolerance(
        SelectSeq(bank, LAMBDA p : Abs(p.amount - expected_amount) <= 1),
        expected_date, tolerance_days)

\* _find_matching_payment, on the rows of self.bank_data
FindMatchingPayment(bank, garage_name, expected_amount, expected_date, tolerance_days) ==
    IF Len(bank) = 0 THEN None
    ELSE LET matching_amount ==
                 SelectSeq(bank, LAMBDA p : p.amount = expected_amount)
         IN  IF Len(matching_amount) = 0 THEN None
             ELSE FirstWithinTolerance(matching_amount, expected_date,
                                       tolerance_days)

\* _determine_payment_status with the grace period one day short
DeterminePaymentStatus_ShortGrace(expected_date, matching_payment, current_date) ==
    IF matching_payment # None THEN RECEIVED
    ELSE IF DaysBetween(current_date, expected_date) >= 3 THEN OVERDUE
    ELSE NOT_DUE

\* _determine_payment_status looking at the date before the payment
DeterminePaymentStatus_DateFirst(expected_date, matching_payment, current_date) ==
    IF DaysBetween(current_date, expected_date) > 3 THEN OVERDUE
    ELSE IF matching_payment # None THEN RECEIVED
    ELSE NOT_DUE

\* _determine_payment_status, current_date given
DeterminePaymentStatus(expected_date, matching_payment, current_date) ==
    IF matching_payment # None THEN RECEIVED
    ELSE LET days_since_expected == DaysBetween(current_date, expected_date)
         IN  IF days_since_expected < 0 THEN NOT_DUE
             ELSE IF days_since_expected > 3 THEN OVERDUE
             ELSE NOT_DUE

\* the default of tolerance_days
DefaultToleranceDays == 3

\* one pass of the loop of generate_payment_report: the report entry of a row
ReportEntry(df, bank, garage, current_date) ==
    LET garage_name == Field(df, garage, ColGarageName)
        expected_amount == Field(df, garage, ColPaymentAmount).num
        expected_date == Field(df, garage, ColPaymentDate).date
        tenant_name == Field(df, garage, ColTenantName)
        adjusted_date == AdjustPaymentDate(expected_date)
        matching_payment ==
            FindMatchingPayment(bank, garage_name, expected_amount,
                                adjusted_date, DefaultToleranceDays)
        status == DeterminePaymentStatus(adjusted_date, matching_payment,
                                         current_date)
        actual_payment_date ==
            IF matching_payment # None
            THEN Some(matching_payment[1].payment_date)
            ELSE None
    IN  [garage_name |-> garage_name,
         expected_payment_date |-> adjusted_date,
         payment_amount |-> expected_amount,
         status |-> status,
         tenant_name |-> tenant_name,
         actual_payment_date |-> actual_payment_date]

\* the bank rows without the first row equal to a matched payment
WithoutPayment(bank, matching_payment) ==
    IF matching_payment = None THEN bank
    ELSE LET k == CHOOSE k \in 1..Len(bank) :
                      /\ bank[k] = matching_payment[1]
                      /\ \A j \in 1..(k - 1) : bank[j] # matching_payment[1]
         IN  SubSeq(bank, 1, k - 1) \o SubSeq(bank, k + 1, Len(bank))

RECURSIVE ReportDataFrom(_, _, _, _)
\* report_data were a matched transaction taken out of the bank rows
ReportDataFrom(df, bank, current_date, i) ==
    IF i > Len(df.rows) THEN <<>>
    ELSE LET garage == df.rows[i]
             matching_payment ==
                 FindMatchingPayment(bank, Field(df, garage, ColGarageName),
                                     Field(df, garage, ColPaymentAmount).num,
                                     AdjustPaymentDate(Field(df, garage, ColPaymentDate).date),
                                     DefaultToleranceDays)
         IN  <<ReportEntry(df, bank, garage, current_date)>>
               \o ReportDataFrom(df, WithoutPayment(bank, matching_payment),
                                 current_date, i + 1)

\* generate_payment_report with every transaction matched at most once
ReportData_Consuming(df, bank, current_date) ==
    ReportDataFrom(df, bank, current_date, 1)

\* report_data after the loop of generate_payment_report
ReportData(df, bank, current_date) ==
    [i \in 1..Len(df.rows) |-> ReportEntry(df, bank, df.rows[i], current_date)]

\* self.payment_report["status"].value_counts(): the statuses that occur,
\* each with its number of rows
ValueCounts(report) ==
    [s \in {report[i].status : i \in 1..Len(report)} |->
        Cardinality({i \in 1..Len(report) : report[i].status = s})]

\* status_counts.get(key, 0)
CountsGet(status_counts, key) ==
    IF key \in DOMAIN status_counts THEN status_counts[key] ELSE 0

\* the dictionary get_payment_summary returns
PaymentSummary(report) ==
    LET status_counts == ValueCounts(report)
    IN  [total_garages |-> Len(report),
         received_payments |-> CountsGet(status_counts, RECEIVED),
         overdue_payments |-> CountsGet(status_counts, OVERDUE),
         not_due_payments |-> CountsGet(status_counts, NOT_DUE),
         status_breakdown |-> status_counts]

\* the rows get_overdue_payments keeps
OverdueRows(report) == SelectSeq(report, LAMBDA e : e.status = OVERDUE)

-----------------------------------------------------------------------------
(* Calls.  last records the operation, its arguments and its outcome:     *)
(* raised is the exception type ("" when the call returned), msg the       *)
(* exception's message, ret the value returned.                            *)

Returned(op, args, ret) ==
    [op |-> op, args |-> args, raised |-> "", msg |-> "", info |-> <<>>,
     ret |-> ret]

\* info: what the message of the exception lists
RaisedWith(op, args, type, msg, info) ==
    [op |-> op, args |-> args, raised |-> type, msg |-> msg, info |-> info,
     ret |-> None]

Raised(op, args, type, msg) == RaisedWith(op, args, type, msg, <<>>)

MsgDataNotSet == "Rent and bank data must be set before generating report"

MsgNoReport == "Payment report must be generated first"

MsgRentNotLoaded == "Rent data not loaded. Call read_rent_file first."

MsgBankNotLoaded ==
    "Bank statement data not loaded. Call read_bank_statement_file first."

MsgMissingColumns == "Could not detect required columns"

MsgNoDateColumn == "Could not detect date column in bank statement"

MsgNoAmountColumn == "Could not detect amount column in bank statement"

Init ==
    /\ reader_rent_data = None
    /\ bank_statement_data = None
    /\ processed_rent_data = None
    /\ processed_bank_data = None
    /\ rent_data = None
    /\ bank_data = None
    /\ payment_report = None
    /\ pc = "start"
    /\ processed_rent = None
    /\ processed_bank = None
    /\ last = Returned("__init__", <<>>, None)

-----------------------------------------------------------------------------
(* PaymentTrackerService: the operations *)

\* set_data(rent_data, bank_data); an argument is None or <<a table>>.  Both
\* fields are assigned, then len() of each argument is logged.
set_data(r, b) ==
    /\ rent_data' = r
    /\ bank_data' = b
    /\ last' = IF r = None \/ b = None
               THEN Raised("set_data", <<r, b>>, "TypeError", "len")
               ELSE Returned("set_data", <<r, b>>, None)
    /\ UNCHANGED <<payment_report, readerVars>>

\* _find_matching_payment(garage_name, expected_amount, expected_date,
\* tolerance_days); self.bank_data.empty fails on None
find_matching_payment(garage_name, expected_amount, expected_date, tolerance_days) ==
    LET args == [garage_name |-> garage_name,
                 expected_amount |-> expected_amount,
                 expected_date |-> expected_date,
                 tolerance_days |-> tolerance_days]
    IN  /\ last' =
             IF bank_data = None
             THEN Raised("_find_matching_payment", args, "AttributeError", "empty")
             ELSE Returned("_find_matching_payment", args,
                           FindMatchingPayment(bank_data[1], garage_name,
                                               expected_amount, expected_date,
                                               tolerance_days))
        /\ UNCHANGED <<trackerVars, readerVars>>

\* _determine_payment_status(expected_date, matching_payment, current_date);
\* current_date is None or <<a date>>, today is what date.today() returns
determine_payment_status(expected_date, matching_payment, current_date, today) ==
    LET current == IF current_date = None THEN today ELSE current_date[1]
        args == [expected_date |-> expected_date,
                 matching_payment |-> matching_payment,
                 current_date |-> current]
    IN  /\ last' = Returned("_determine_payment_status", args,
                            DeterminePaymentStatus(expected_date,
                                                   matching_payment, current))
        /\ UNCHANGED <<trackerVars, readerVars>>

\* the columns a row of rent_data is read by, in the order they are read
ReportColumns == <<ColGarageName, ColPaymentAmount, ColPaymentDate, ColTenantName>>

\* generate_payment_report(current_date)
generate_payment_report(current_date, today) ==
    LET current == IF current_date = None THEN today ELSE current_date[1]
        args == [current_date |-> current]
    IN  IF rent_data = None \/ bank_data = None
        THEN /\ last' = Raised("generate_payment_report", args, "ValueError",
                               MsgDataNotSet)
             /\ UNCHANGED <<trackerVars, readerVars>>
        ELSE LET df == rent_data[1]
                 bank == bank_data[1]
                 missing == {i \in 1..Len(ReportColumns) :
                                ~HasColumn(df, ReportColumns[i])}
             IN  IF Len(df.rows) > 0 /\ missing # {}
                 THEN \* garage[<label>] on the first row
                      /\ last' = Raised("generate_payment_report", args, "KeyError",
                                        "column")
                      /\ UNCHANGED <<trackerVars, readerVars>>
                 ELSE LET report == ReportData(df, bank, current)
                      IN  /\ payment_report' = Some(report)
                          /\ last' =
                               IF Len(report) = 0
                               THEN \* pd.DataFrame([]) has no "status" column
                                    Raised("generate_payment_report", args,
                                           "KeyError", "status")
                               ELSE Returned("generate_payment_report", args,
                                             report)
                          /\ UNCHANGED <<rent_data, bank_data, readerVars>>

\* get_payment_summary without its check of self.payment_report
get_payment_summary_Unguarded ==
    /\ last' =
         IF payment_report = None \/ Len(payment_report[1]) = 0
         THEN Raised("get_payment_summary", <<>>, "KeyError", "status")
         ELSE Returned("get_payment_summary", <<>>,
                       PaymentSummary(payment_report[1]))
    /\ UNCHANGED <<trackerVars, readerVars>>

\* get_payment_summary()
get_payment_summary ==
    /\ last' =
         IF payment_report = None
         THEN Raised("get_payment_summary", <<>>, "ValueError", MsgNoReport)
         ELSE IF Len(payment_report[1]) = 0
         THEN Raised("get_payment_summary", <<>>, "KeyError", "status")
         ELSE Returned("get_payment_summary", <<>>,
                       PaymentSummary(payment_report[1]))
    /\ UNCHANGED <<trackerVars, readerVars>>

\* get_overdue_payments()
get_overdue_payments ==
    /\ last' =
         IF payment_report = None
         THEN Raised("get_overdue_payments", <<>>, "ValueError", MsgNoReport)
         ELSE IF Len(payment_report[1]) = 0
         THEN Raised("get_overdue_payments", <<>>, "KeyError", "status")
         ELSE Returned("get_overdue_payments", <<>>,
                       OverdueRows(payment_report[1]))
    /\ UNCHANGED <<trackerVars, readerVars>>

\* export_report_to_excel(file_path): writes the report sheet, then the
\* sheet of get_payment_summary()
export_report_to_excel ==
    /\ last' =
         IF payment_report = None
         THEN Raised("export_report_to_excel", <<>>, "ValueError", MsgNoReport)
         ELSE IF Len(payment_report[1]) = 0
         THEN Raised("export_report_to_excel", <<>>, "KeyError", "status")
         ELSE Returned("export_report_to_excel", <<>>,
                       <<payment_report[1], PaymentSummary(payment_report[1])>>)
    /\ UNCHANGED <<trackerVars, readerVars>>

-----------------------------------------------------------------------------
(* FileReaderService: the rent table *)

\* garage_names
GarageKeywords ==
    <<<<"ru_g", "ru_a", "ru_r", "ru_a", "ru_zh">>,
      <<"g", "a", "r", "a", "g", "e">>,
      <<"ru_n", "ru_o", "ru_m", "ru_e", "ru_r", " ", "ru_g", "ru_a", "ru_r", "ru_a", "ru_zh", "ru_a">>,
      <<"g", "a", "r", "a", "g", "e", " ", "n", "u", "m", "b", "e", "r">>,
      <<"g", "a", "r", "a", "g", "e", "_", "n", "a", "m", "e">>>>

\* amount_names
AmountKeywords ==
    <<<<"ru_s", "ru_u", "ru_m", "ru_m", "ru_a">>,
      <<"a", "m", "o", "u", "n", "t">>,
      <<"p", "a", "y", "m", "e", "n", "t", "_", "a", "m", "o", "u", "n", "t">>,
      <<"ru_s", "ru_u", "ru_m", "ru_m", "ru_a", " ", "ru_o", "ru_p", "ru_l", "ru_a", "ru_t", "ru_y">>,
      <<"p", "a", "y", "m", "e", "n", "t", " ", "a", "m", "o", "u", "n", "t">>>>

\* date_names
DateKeywords ==
    <<<<"ru_d", "ru_a", "ru_t", "ru_a">>,
      <<"d", "a", "t", "e">>,
      <<"p", "a", "y", "m", "e", "n", "t", "_", "d", "a", "t", "e">>,
      <<"ru_d", "ru_a", "ru_t", "ru_a", " ", "ru_o", "ru_p", "ru_l", "ru_a", "ru_t", "ru_y">>,
      <<"ru_p", "ru_e", "ru_r", "ru_v", "ru_o", "ru_n", "ru_a", "ru_ch", "ru_a", "ru_l", "ru_soft", "ru_n", "ru_a", "ru_ya", " ", "ru_d", "ru_a", "ru_t", "ru_a">>,
      <<"i", "n", "i", "t", "i", "a", "l", " ", "d", "a", "t", "e">>>>

\* the detection loop that keeps the last matching column instead of the first
RECURSIVE ScanColumnsLast(_, _, _)
ScanColumnsLast(columns, i, names) ==
    IF i > Len(columns) THEN 0
    ELSE LET later == ScanColumnsLast(columns, i + 1, names)
         IN  IF later # 0 THEN later
             ELSE IF ContainsAny(Lower(columns[i]), names) THEN i
             ELSE 0

\* one detection loop of _detect_rent_columns, from column i on: the position
\* of the first column whose lower-cased label contains one of names, 0 when
\* the loop ends without a break
RECURSIVE ScanColumns(_, _, _)
ScanColumns(columns, i, names) ==
    IF i > Len(columns) THEN 0
    ELSE IF ContainsAny(Lower(columns[i]), names) THEN i
    ELSE ScanColumns(columns, i + 1, names)

\* the field names, in the order _detect_rent_columns fills column_mapping
RequiredColumns == <<"garage_name", "payment_amount", "payment_date">>

FieldKeywords(field) ==
    CASE field = "garage_name" -> GarageKeywords
      [] field = "payment_amount" -> AmountKeywords
      [] field = "payment_date" -> DateKeywords

\* the canonical label of a field
FieldLabel(field) ==
    CASE field = "garage_name" -> ColGarageName
      [] field = "payment_amount" -> ColPaymentAmount
      [] field = "payment_date" -> ColPaymentDate

\* _detect_rent_columns: column_mapping, from field name to column label
DetectRentColumns(df) ==
    LET columns == df.columns
        found == {f \in {RequiredColumns[k] : k \in 1..Len(RequiredColumns)} :
                     ScanColumns(columns, 1, FieldKeywords(f)) # 0}
    IN  [f \in found |-> columns[ScanColumns(columns, 1, FieldKeywords(f))]]

\* missing_columns of process_rent_data
MissingColumns(column_mapping) ==
    SelectSeq(RequiredColumns, LAMBDA col : col \notin DOMAIN column_mapping)

\* reverse_mapping = {v: k for k, v in column_mapping.items()} applied to a
\* label by rename: a later field replaces an earlier one on the same label
RenameLabel(column_mapping, label) ==
    LET fields == {k \in 1..Len(RequiredColumns) :
                      /\ RequiredColumns[k] \in DOMAIN column_mapping
                      /\ column_mapping[RequiredColumns[k]] = label}
    IN  IF fields = {} THEN label
        ELSE FieldLabel(RequiredColumns[CHOOSE k \in fields :
                                            \A j \in fields : j <= k])

\* df.rename(columns=reverse_mapping)
RenameColumns(df, column_mapping) ==
    DataFrame([i \in 1..Len(df.columns) |->
                  RenameLabel(column_mapping, df.columns[i])],
              df.rows)

\* "YYYY-MM-DD"
IsIsoShaped(s) ==
    /\ Len(s) = 10
    /\ AllDigits(SubSeq(s, 1, 4))
    /\ s[5] = "-"
    /\ AllDigits(SubSeq(s, 6, 7))
    /\ s[8] = "-"
    /\ AllDigits(SubSeq(s, 9, 10))

\* the year, month and day an ISO-shaped text names
IsoFields(s) ==
    Date(DigitsVal(SubSeq(s, 1, 4)), DigitsVal(SubSeq(s, 6, 7)),
         DigitsVal(SubSeq(s, 9, 10)))

\* whether pd.to_datetime accepts the cell.  The texts of the model are
\* ISO dates; a text that names no calendar date is refused.
CanConvertToDatetime(cell) ==
    CASE cell.kind = "text" ->
             /\ IsIsoShaped(cell.text)
             /\ IsValidDate(IsoFields(cell.text).year, IsoFields(cell.text).month,
                            IsoFields(cell.text).day)
      [] OTHER -> TRUE

\* pd.to_datetime(cell) followed by .dt.date: the time of day is dropped, a
\* number counts nanoseconds from 1970-01-01, an empty cell stays empty (NaT)
ToDate(cell) ==
    CASE cell.kind = "text" -> DateCell(IsoFields(cell.text))
      [] cell.kind = "timestamp" -> DateCell(cell.date)
      [] cell.kind = "date" -> cell
      [] cell.kind = "num" -> DateCell(Date(1970, 1, 1))
      [] cell.kind = "nan" -> NanCell

\* the placeholder process_rent_data writes as tenant_name
TenantPlaceholder ==
    <<"RU_A", "ru_r", "ru_e", "ru_n", "ru_d", "ru_a", "ru_t", "ru_o", "ru_r",
      " ", "ru_g", "ru_a", "ru_r", "ru_a", "ru_zh", "ru_a">>

\* df[label] = value for a label of df: every column so labelled is replaced,
\* a label df does not have yet is appended
\* values holds the new cell of each row
AssignColumn(df, label, values) ==
    IF HasColumn(df, label)
    THEN DataFrame(df.columns,
                   [r \in 1..Len(df.rows) |->
                       [c \in 1..Len(df.columns) |->
                           IF df.columns[c] = label THEN values[r]
                           ELSE df.rows[r][c]]])
    ELSE DataFrame(Append(df.columns, label),
                   [r \in 1..Len(df.rows) |-> Append(df.rows[r], values[r])])

\* read_rent_file(file_path): df is what pd.read_excel returns, when it returns
read_rent_file(df, readable) ==
    /\ reader_rent_data' = IF readable THEN Some(df) ELSE reader_rent_data
    /\ last' = IF readable THEN Returned("read_rent_file", <<>>, df)
               ELSE Raised("read_rent_file", <<>>, "Exception", "read_excel")
    /\ UNCHANGED <<bank_statement_data, processed_rent_data, processed_bank_data,
                   trackerVars>>

\* process_rent_data()
process_rent_data ==
    IF reader_rent_data = None
    THEN /\ last' = Raised("process_rent_data", <<>>, "ValueError", MsgRentNotLoaded)
         /\ UNCHANGED <<readerVars, trackerVars>>
    ELSE LET df == reader_rent_data[1]
             column_mapping == DetectRentColumns(df)
             missing_columns == MissingColumns(column_mapping)
             renamed == RenameColumns(df, column_mapping)
             date_columns == ColumnsNamed(renamed, ColPaymentDate)
             dated == AssignColumn(renamed, ColPaymentDate,
                                   [r \in 1..Len(renamed.rows) |->
                                       ToDate(Field(renamed, renamed.rows[r],
                                                    ColPaymentDate))])
             result == AssignColumn(dated, ColTenantName,
                                    [r \in 1..Len(dated.rows) |->
                                        TextCell(TenantPlaceholder)])
         IN  IF Len(missing_columns) > 0
             THEN /\ last' = RaisedWith("process_rent_data", <<>>, "ValueError",
                                        MsgMissingColumns,
                                        [missing |-> missing_columns,
                                         available |-> df.columns])
                  /\ UNCHANGED <<readerVars, trackerVars>>
             ELSE IF Cardinality(date_columns) > 1
             THEN \* pd.to_datetime of a frame with duplicate labels
                  /\ last' = Raised("process_rent_data", <<>>, "ValueError",
                                    "cannot assemble with duplicate keys")
                  /\ UNCHANGED <<readerVars, trackerVars>>
             ELSE IF \E r \in 1..Len(renamed.rows) :
                        ~CanConvertToDatetime(Field(renamed, renamed.rows[r],
                                                    ColPaymentDate))
             THEN /\ last' = Raised("process_rent_data", <<>>, "ValueError",
                                    "to_datetime")
                  /\ UNCHANGED <<readerVars, trackerVars>>
             ELSE /\ processed_rent_data' = Some(result)
                  /\ last' = Returned("process_rent_data", <<>>, result)
                  /\ UNCHANGED <<reader_rent_data, bank_statement_data,
                                 processed_bank_data, trackerVars>>

-----------------------------------------------------------------------------
(* FileReaderService: the bank statement *)

Min(a, b) == IF a < b THEN a ELSE b

\* str() of a non-negative integer
RECURSIVE IntToText(_)
IntToText(n) ==
    IF n < 10 THEN <<DigitSeq[n + 1]>>
    ELSE IntToText(n \div 10) \o <<DigitSeq[(n % 10) + 1]>>

\* an integer in at least w digits
RECURSIVE ZeroPad(_, _)
ZeroPad(t, w) == IF Len(t) >= w THEN t ELSE ZeroPad(<<"0">> \o t, w)

\* str() of a date: YYYY-MM-DD
IsoText(dt) ==
    ZeroPad(IntToText(dt.year), 4) \o <<"-">> \o ZeroPad(IntToText(dt.month), 2)
        \o <<"-">> \o ZeroPad(IntToText(dt.day), 2)

\* str() of a float given in hundredths: 2750.0, 1200.5, 12.34
FloatText(n) ==
    LET a == Abs(n)
        frac == a % 100
    IN  (IF n < 0 THEN <<"-">> ELSE <<>>) \o IntToText(a \div 100) \o <<".">>
            \o (IF frac % 10 = 0 THEN IntToText(frac \div 10)
                ELSE ZeroPad(IntToText(frac), 2))

\* str(cell), and what astype(str) makes of a cell
StrOf(cell) ==
    CASE cell.kind = "text" -> cell.text
      [] cell.kind = "nan" -> <<"n", "a", "n">>
      [] cell.kind = "num" -> FloatText(cell.num)
      [] cell.kind = "date" -> IsoText(cell.date)
      [] cell.kind = "timestamp" ->
             IsoText(cell.date) \o <<" ", "0", "0", ":", "0", "0", ":", "0", "0">>

\* date_pattern \d{2}\.\d{2}\.\d{4} matches s at position i
DatePatternAt(s, i) ==
    /\ i + 9 <= Len(s)
    /\ AllDigits(SubSeq(s, i, i + 1))
    /\ s[i + 2] = "."
    /\ AllDigits(SubSeq(s, i + 3, i + 4))
    /\ s[i + 5] = "."
    /\ AllDigits(SubSeq(s, i + 6, i + 9))

\* re.search(date_pattern, s): the position of the first match, 0 for no match
SearchDatePattern(s) ==
    LET hits == {i \in 1..Len(s) : DatePatternAt(s, i)}
    IN  IF hits = {} THEN 0 ELSE CHOOSE i \in hits : \A j \in hits : i <= j

Signs == {"+", "-"}

\* [\d\s,]
AmountClass == Digits \cup Whitespace \cup {","}

\* [+-]?[\d\s,]+ matches s at position i
AmountPatternAt(s, i) ==
    \/ s[i] \in AmountClass
    \/ s[i] \in Signs /\ i < Len(s) /\ s[i + 1] \in AmountClass

\* re.search(r"[+-]?[\d\s,]+", s): None, or the text of the first match
SearchAmount(s) ==
    LET hits == {i \in 1..Len(s) : AmountPatternAt(s, i)}
    IN  IF hits = {} THEN None
        ELSE LET i == CHOOSE i \in hits : \A j \in hits : i <= j
                 from == IF s[i] \in Signs THEN i + 1 ELSE i
             IN  Some(SubSeq(s, i, from + RunLen(s, from, AmountClass) - 1))

\* the digits and point of a float text: surrounding whitespace and one sign
\* removed
FloatBody(t) ==
    LET u == Strip(t)
    IN  IF Len(u) > 0 /\ u[1] \in Signs THEN Tail(u) ELSE u

\* whether float(t) returns: digits with at most one point, at least one digit
IsFloatText(t) ==
    LET b == FloatBody(t)
    IN  /\ \A i \in 1..Len(b) : b[i] \in Digits \cup {"."}
        /\ Cardinality({i \in 1..Len(b) : b[i] = "."}) <= 1
        /\ \E i \in 1..Len(b) : b[i] \in Digits

\* float(t) in hundredths, for a text float accepts; the amounts of the model
\* have at most two decimals
FloatValue(t) ==
    LET u == Strip(t)
        b == FloatBody(t)
        dots == {i \in 1..Len(b) : b[i] = "."}
        dot == IF dots = {} THEN Len(b) + 1 ELSE CHOOSE i \in dots : TRUE
        whole == DigitsVal(SubSeq(b, 1, dot - 1))
        frac == SubSeq(b, dot + 1, Len(b))
        hundredths == IF Len(frac) = 0 THEN 0
                      ELSE IF Len(frac) = 1 THEN 10 * DigitsVal(frac)
                      ELSE DigitsVal(SubSeq(frac, 1, 2))
        magnitude == 100 * whole + hundredths
    IN  IF u[1] = "-" THEN 0 - magnitude ELSE magnitude

\* sample_rows = df.head(50)
SampleSize == 50

SampleRows(df) == SubSeq(df.rows, 1, Min(Len(df.rows), SampleSize))

\* the date-column loop of _detect_bank_statement_columns from column c on:
\* the first column with a date pattern in a sampled cell, 0 for None
RECURSIVE ScanDateColumn(_, _, _)
ScanDateColumn(rows, ncols, c) ==
    IF c > ncols THEN 0
    ELSE IF \E r \in 1..Len(rows) : SearchDatePattern(StrOf(rows[r][c])) # 0 THEN c
    ELSE ScanDateColumn(rows, ncols, c + 1)

\* str.contains(amount_pattern): [+-]?\d+[\s,]*\d*[,.]?\d* is found exactly
\* where a digit is
HasAmountPattern(s) == \E i \in 1..Len(s) : s[i] \in Digits

\* re.search(r"[\s,]\d{3}|[,.]\d{2}", val)
IsCurrencyLike(s) ==
    \E i \in 1..Len(s) :
        \/ s[i] \in Whitespace \cup {","} /\ i + 3 <= Len(s)
             /\ AllDigits(SubSeq(s, i + 1, i + 3))
        \/ s[i] \in {",", "."} /\ i + 2 <= Len(s)
             /\ AllDigits(SubSeq(s, i + 1, i + 2))

\* re.search(r"^[+-]", val.strip())
HasLeadingSign(s) == Len(Strip(s)) > 0 /\ Strip(s)[1] \in Signs

\* the score of column c as the amount column
AmountScore(rows, c) ==
    LET matched == {r \in 1..Len(rows) : HasAmountPattern(StrOf(rows[r][c]))}
        currency_like == Cardinality({r \in matched : IsCurrencyLike(StrOf(rows[r][c]))})
        has_signs == Cardinality({r \in matched : HasLeadingSign(StrOf(rows[r][c]))})
    IN  Cardinality(matched) + 2 * currency_like + has_signs

\* the amount-column loop from column c on, best_amount_col and
\* best_amount_score carried along; 0 for None
RECURSIVE ScanAmountColumn(_, _, _, _, _, _)
ScanAmountColumn(rows, ncols, c, date_col_idx, best_amount_col, best_amount_score) ==
    IF c > ncols THEN best_amount_col
    ELSE IF c = date_col_idx
    THEN ScanAmountColumn(rows, ncols, c + 1, date_col_idx, best_amount_col,
                          best_amount_score)
    ELSE LET score == AmountScore(rows, c)
         IN  IF score > 0 /\ score > best_amount_score
             THEN ScanAmountColumn(rows, ncols, c + 1, date_col_idx, c, score)
             ELSE ScanAmountColumn(rows, ncols, c + 1, date_col_idx,
                                   best_amount_col, best_amount_score)

\* the description-column loop from column c on; 0 for None
RECURSIVE ScanDescriptionColumn(_, _, _, _, _)
ScanDescriptionColumn(rows, ncols, c, date_col_idx, amount_col_idx) ==
    IF c > ncols THEN 0
    ELSE IF /\ c # date_col_idx
            /\ c # amount_col_idx
            /\ \E r \in 1..Len(rows) : Len(StrOf(rows[r][c])) > 0
    THEN c
    ELSE ScanDescriptionColumn(rows, ncols, c + 1, date_col_idx, amount_col_idx)

\* _detect_bank_statement_columns: column positions from 1, 0 for None
DetectBankStatementColumns(df) ==
    LET rows == SampleRows(df)
        ncols == Len(df.columns)
        date_col_idx == ScanDateColumn(rows, ncols, 1)
        amount_col_idx == ScanAmountColumn(rows, ncols, 1, date_col_idx, 0, 0)
        description_col_idx ==
            ScanDescriptionColumn(rows, ncols, 1, date_col_idx, amount_col_idx)
    IN  [date |-> date_col_idx, amount |-> amount_col_idx,
         description |-> description_col_idx]

\* the extraction loop keeping non-positive amounts too
RowPayment_AnySign(row, date_col_idx, amount_col_idx, desc_col_idx) ==
    LET date_str == Strip(StrOf(row[date_col_idx]))
        at == SearchDatePattern(date_str)
        day == DigitsVal(SubSeq(date_str, at, at + 1))
        month == DigitsVal(SubSeq(date_str, at + 3, at + 4))
        year == DigitsVal(SubSeq(date_str, at + 6, at + 9))
        amount_match == SearchAmount(StrOf(row[amount_col_idx]))
        amount_str == Replace(Replace(amount_match[1], " ", <<>>), ",", <<".">>)
    IN  IF at = 0 \/ ~IsValidDate(year, month, day) \/ amount_match = None
        THEN None
        ELSE IF ~IsFloatText(amount_str) THEN None
        ELSE Some([payment_date |-> Date(year, month, day),
                   amount |-> FloatValue(amount_str),
                   description |-> IF desc_col_idx # 0
                                   THEN StrOf(row[desc_col_idx])
                                   ELSE <<>>])

\* one pass of the extraction loop of process_bank_statement_data: None when
\* the row adds nothing to payments (an exception caught, no amount found, an
\* amount that is not positive), else the payment appended
RowPayment(row, date_col_idx, amount_col_idx, desc_col_idx) ==
    LET date_str == Strip(StrOf(row[date_col_idx]))
        at == SearchDatePattern(date_str)
        day == DigitsVal(SubSeq(date_str, at, at + 1))
        month == DigitsVal(SubSeq(date_str, at + 3, at + 4))
        year == DigitsVal(SubSeq(date_str, at + 6, at + 9))
        amount_match == SearchAmount(StrOf(row[amount_col_idx]))
        amount_str == Replace(Replace(amount_match[1], " ", <<>>), ",", <<".">>)
    IN  IF at = 0 THEN None
        ELSE IF ~IsValidDate(year, month, day) THEN None  \* strptime raises
        ELSE IF amount_match = None THEN None
        ELSE IF ~IsFloatText(amount_str) THEN None        \* float raises
        ELSE IF FloatValue(amount_str) > 0
        THEN Some([payment_date |-> Date(year, month, day),
                   amount |-> FloatValue(amount_str),
                   description |-> IF desc_col_idx # 0
                                   THEN StrOf(row[desc_col_idx])
                                   ELSE <<>>])
        ELSE None

RECURSIVE ExtractPayments_UntilBadRow(_, _, _, _)
\* the extraction loop were it ended by the first row whose date or amount
\* cannot be extracted
ExtractPayments_UntilBadRow(date_rows, date_col_idx, amount_col_idx, desc_col_idx) ==
    IF Len(date_rows) = 0 THEN <<>>
    ELSE IF RowPayment_AnySign(Head(date_rows), date_col_idx, amount_col_idx,
                               desc_col_idx) = None
    THEN <<>>
    ELSE RowPayment(Head(date_rows), date_col_idx, amount_col_idx, desc_col_idx)
             \o ExtractPayments_UntilBadRow(Tail(date_rows), date_col_idx,
                                            amount_col_idx, desc_col_idx)

\* payments after the extraction loop over date_rows
RECURSIVE ExtractPayments(_, _, _, _)
ExtractPayments(date_rows, date_col_idx, amount_col_idx, desc_col_idx) ==
    IF Len(date_rows) = 0 THEN <<>>
    ELSE RowPayment(Head(date_rows), date_col_idx, amount_col_idx, desc_col_idx)
             \o ExtractPayments(Tail(date_rows), date_col_idx, amount_col_idx,
                                desc_col_idx)

\* read_bank_statement_file(file_path)
read_bank_statement_file(df, readable) ==
    /\ bank_statement_data' = IF readable THEN Some(df) ELSE bank_statement_data
    /\ last' = IF readable THEN Returned("read_bank_statement_file", <<>>, df)
               ELSE Raised("read_bank_statement_file", <<>>, "Exception",
                           "read_excel")
    /\ UNCHANGED <<reader_rent_data, processed_rent_data, processed_bank_data,
                   trackerVars>>

\* process_bank_statement_data(); the processed frame is the sequence of its
\* rows, each [payment_date, amount, description]
process_bank_statement_data ==
    IF bank_statement_data = None
    THEN /\ last' = Raised("process_bank_statement_data", <<>>, "ValueError",
                           MsgBankNotLoaded)
         /\ UNCHANGED <<readerVars, trackerVars>>
    ELSE LET df == bank_statement_data[1]
             detected == DetectBankStatementColumns(df)
             date_rows ==
                 SelectSeq(df.rows,
                           LAMBDA row :
                               SearchDatePattern(StrOf(row[detected.date])) # 0)
             processed_df == ExtractPayments(date_rows, detected.date,
                                             detected.amount, detected.description)
         IN  IF detected.date = 0
             THEN /\ last' = Raised("process_bank_statement_data", <<>>,
                                    "ValueError", MsgNoDateColumn)
                  /\ UNCHANGED <<readerVars, trackerVars>>
             ELSE IF detected.amount = 0
             THEN /\ last' = Raised("process_bank_statement_data", <<>>,
                                    "ValueError", MsgNoAmountColumn)
                  /\ UNCHANGED <<readerVars, trackerVars>>
             ELSE IF Len(date_rows) = 0
             THEN \* return pd.DataFrame(), nothing stored
                  /\ last' = Returned("process_bank_statement_data", <<>>, <<>>)
                  /\ UNCHANGED <<readerVars, trackerVars>>
             ELSE /\ processed_bank_data' = Some(processed_df)
                  /\ last' = Returned("process_bank_statement_data", <<>>,
                                      processed_df)
                  /\ UNCHANGED <<reader_rent_data, bank_statement_data,
                                 processed_rent_data, trackerVars>>

-----------------------------------------------------------------------------
(* Inputs *)

Years == {2024, 2025}

\* the calendar dates of Years
CalendarDates ==
    {dt \in [year : Years, month : 1..12, day : 1..31] :
        IsValidDate(dt.year, dt.month, dt.day)}

DatesWithin(anchor, n) ==
    {dt \in CalendarDates : Abs(DaysBetween(dt, anchor)) <= n}

\* sequences over S of length at most n
SeqsUpTo(S, n) == UNION {[1..k -> S] : k \in 0..n}

Text_A1 == <<"A", "1">>

Text_B2 == <<"B", "2">>

GarageNames == {TextCell(Text_A1), TextCell(Text_B2)}

\* 5000.00 and 5000.01
Amount5000 == 5000 * 100

Amount5000_01 == 5000 * 100 + 1

Amount3000 == 3000 * 100

-----------------------------------------------------------------------------
(* The classifier alone: calls of _determine_payment_status *)

MaxDayOffset == 5

StatusDates == DatesWithin(Date(2024, 3, 1), MaxDayOffset)

StatusPayment ==
    [payment_date |-> Date(2024, 3, 1), amount |-> Amount5000, description |-> <<>>]

NextStatus ==
    \E e \in StatusDates, m \in {None, Some(StatusPayment)}, today \in StatusDates :
        \E c \in {None, Some(today)} :
            determine_payment_status(e, m, c, today) /\ UNCHANGED handlerVars

SpecStatus == Init /\ [][NextStatus]_vars

\* C1: _determine_payment_status is total in (match found, D): RECEIVED
\* whenever a matching payment is given, whatever D; with no match NOT_DUE
\* for every D <= 3 and OVERDUE for every D > 3; nothing else is returned.
C1_StatusIsTotal ==
    last.op = "_determine_payment_status" =>
        LET D == DaysBetween(last.args.current_date, last.args.expected_date)
            found == last.args.matching_payment # None
        IN  /\ last.raised = ""
            /\ last.ret \in {RECEIVED, OVERDUE, NOT_DUE}
            /\ found => last.ret = RECEIVED
            /\ (~found /\ D <= 3) => last.ret = NOT_DUE
            /\ (~found /\ D > 3) => last.ret = OVERDUE

\* the last day of the grace period, no payment: NOT_DUE
C1_Witness ==
    /\ last.op = "_determine_payment_status"
    /\ last.args.matching_payment = None
    /\ DaysBetween(last.args.current_date, last.args.expected_date) = 3
    /\ last.ret = NOT_DUE

-----------------------------------------------------------------------------
(* The matcher alone: set_data, then calls of _find_matching_payment *)

MaxMatchBank == 2

MatchAnchor == Date(2024, 1, 31)

\* 4, 3 and 0 days from the anchor on either side, across the month's end
MatchDates ==
    {Date(2024, 1, 27), Date(2024, 1, 28), Date(2024, 1, 31), Date(2024, 2, 3),
     Date(2024, 2, 4)}

MatchTransactions ==
    [payment_date : MatchDates, amount : {Amount5000, Amount5000_01},
     description : {<<>>}]

MatchBankTables == SeqsUpTo(MatchTransactions, MaxMatchBank)

MatchTolerances == {DefaultToleranceDays, 1}

NoObligations == DataFrame(ReportColumns, <<>>)

NextMatch ==
    \/ \E b \in MatchBankTables :
          set_data(Some(NoObligations), Some(b)) /\ UNCHANGED handlerVars
    \/ \E g \in GarageNames, a \in {Amount5000, Amount5000_01},
          d \in {MatchAnchor, Date(2024, 2, 1)}, t \in MatchTolerances :
            find_matching_payment(g, a, d, t) /\ UNCHANGED handlerVars

SpecMatch == Init /\ [][NextMatch]_vars

\* transaction p satisfies both conditions of the matcher
IsMatch(p, expected_amount, expected_date, tolerance_days) ==
    /\ p.amount = expected_amount
    /\ Abs(DaysBetween(p.payment_date, expected_date)) <= tolerance_days

\* C3: _find_matching_payment returns the first transaction, in bank-table
\* order, of exactly the expected amount and at most tolerance_days from the
\* expected date, and none when no transaction satisfies both (the empty
\* table, amounts that differ by 0.01); the garage name has no influence.
C3_FirstExactMatch ==
    (last.op = "_find_matching_payment" /\ bank_data # None) =>
        LET a == last.args
            bank == bank_data[1]
            hits == {i \in 1..Len(bank) :
                        IsMatch(bank[i], a.expected_amount, a.expected_date,
                                a.tolerance_days)}
        IN  /\ last.raised = ""
            /\ hits = {} => last.ret = None
            /\ hits # {} =>
                 LET i == CHOOSE i \in hits : \A j \in hits : i <= j
                 IN  last.ret = Some([payment_date |-> bank[i].payment_date,
                                      amount |-> bank[i].amount,
                                      description |-> bank[i].description])
            /\ \A g \in GarageNames :
                 FindMatchingPayment(bank, g, a.expected_amount, a.expected_date,
                                     a.tolerance_days) = last.ret

\* the first transaction is 0.01 off and in the window, the second matches
C3_Witness ==
    /\ last.op = "_find_matching_payment"
    /\ bank_data # None
    /\ Len(bank_data[1]) = 2
    /\ Abs(bank_data[1][1].amount - last.args.expected_amount) = 1
    /\ Abs(DaysBetween(bank_data[1][1].payment_date, last.args.expected_date))
         <= last.args.tolerance_days
    /\ IsMatch(bank_data[1][2], last.args.expected_amount,
               last.args.expected_date, last.args.tolerance_days)
    /\ last.ret # None
    /\ last.ret[1].payment_date = bank_data[1][2].payment_date
    /\ last.ret[1].amount = bank_data[1][2].amount

-----------------------------------------------------------------------------
(* The /generate handler, from the first service call on: one               *)
(* FileReaderService and one PaymentTrackerService per request; an          *)
(* exception of any call ends the request in the except clause.             *)

\* on to the next call, or to the except clause
Advance(next) == pc' = IF last'.raised = "" THEN next ELSE "failed"

\* file_service.read_rent_file(rent_temp_path)
Handle_read_rent_file(Rents) ==
    /\ pc = "start"
    /\ \E df \in Rents, readable \in BOOLEAN : read_rent_file(df, readable)
    /\ Advance("read_bank")
    /\ UNCHANGED <<processed_rent, processed_bank>>

\* file_service.read_bank_statement_file(bank_temp_path)
Handle_read_bank_statement_file(Banks) ==
    /\ pc = "read_bank"
    /\ \E df \in Banks, readable \in BOOLEAN : read_bank_statement_file(df, readable)
    /\ Advance("process_rent")
    /\ UNCHANGED <<processed_rent, processed_bank>>

\* processed_rent = file_service.process_rent_data()
Handle_process_rent_data ==
    /\ pc = "process_rent"
    /\ process_rent_data
    /\ processed_rent' = IF last'.raised = "" THEN Some(last'.ret) ELSE processed_rent
    /\ Advance("process_bank")
    /\ UNCHANGED processed_bank

\* processed_bank = file_service.process_bank_statement_data()
Handle_process_bank_statement_data ==
    /\ pc = "process_bank"
    /\ process_bank_statement_data
    /\ processed_bank' = IF last'.raised = "" THEN Some(last'.ret) ELSE processed_bank
    /\ Advance("set_data")
    /\ UNCHANGED processed_rent

\* tracker_service.set_data(processed_rent, processed_bank)
Handle_set_data ==
    /\ pc = "set_data"
    /\ set_data(processed_rent, processed_bank)
    /\ Advance("generate")
    /\ UNCHANGED <<processed_rent, processed_bank>>

\* payment_report = tracker_service.generate_payment_report()
Handle_generate_payment_report(Todays) ==
    /\ pc = "generate"
    /\ \E today \in Todays : generate_payment_report(None, today)
    /\ Advance("summary")
    /\ UNCHANGED <<processed_rent, processed_bank>>

\* summary = tracker_service.get_payment_summary()
Handle_get_payment_summary ==
    /\ pc = "summary"
    /\ get_payment_summary
    /\ Advance("done")
    /\ UNCHANGED <<processed_rent, processed_bank>>

NextHandler(Rents, Banks, Todays) ==
    \/ Handle_read_rent_file(Rents)
    \/ Handle_read_bank_statement_file(Banks)
    \/ Handle_process_rent_data
    \/ Handle_process_bank_statement_data
    \/ Handle_set_data
    \/ Handle_generate_payment_report(Todays)
    \/ Handle_get_payment_summary

-----------------------------------------------------------------------------
(* Requests: small rent and bank tables *)

MaxRent == 2

MaxBank == 2

Label_Garage == <<"RU_G", "ru_a", "ru_r", "ru_a", "ru_zh">>

Label_Amount == <<"RU_S", "ru_u", "ru_m", "ru_m", "ru_a">>

Label_Date ==
    <<"RU_D", "ru_a", "ru_t", "ru_a", " ", "ru_o", "ru_p", "ru_l", "ru_a", "ru_t", "ru_y">>

RentHeader == <<Label_Garage, Label_Amount, Label_Date>>

Text_2025_02_29 == <<"2", "0", "2", "5", "-", "0", "2", "-", "2", "9">>

Text_2024_04_31 == <<"2", "0", "2", "4", "-", "0", "4", "-", "3", "1">>

\* the rent rows: garage, amount, date cell.  The texts name the 29th of a
\* February of 28 days and the 31st of a month of 30.
RentRows ==
    {<<TextCell(Text_A1), NumCell(Amount5000), TimestampCell(Date(2024, 1, 31))>>,
     <<TextCell(Text_B2), NumCell(Amount3000), TimestampCell(Date(2025, 2, 28))>>,
     <<TextCell(Text_B2), NumCell(Amount3000), TextCell(Text_2025_02_29)>>,
     <<TextCell(Text_A1), NumCell(Amount5000), TextCell(Text_2024_04_31)>>}

RentTables == {DataFrame(RentHeader, rows) : rows \in SeqsUpTo(RentRows, MaxRent)}

Text_01_02_2024 == <<"0", "1", ".", "0", "2", ".", "2", "0", "2", "4">>

Text_04_02_2024 == <<"0", "4", ".", "0", "2", ".", "2", "0", "2", "4">>

Text_31_02_2024 == <<"3", "1", ".", "0", "2", ".", "2", "0", "2", "4">>

Text_Total == <<"RU_I", "ru_t", "ru_o", "ru_g", "ru_o">>

Text_Plus5000 == <<"+", "5", " ", "0", "0", "0", ",", "0", "0">>

Text_Plus5000_01 == <<"+", "5", " ", "0", "0", "0", ",", "0", "1">>

Text_Plus3000 == <<"+", "3", " ", "0", "0", "0", ",", "0", "0">>

Text_Minus1200 == <<"-", "1", " ", "2", "0", "0", ",", "0", "0">>

Text_Garage12 == <<"G", "a", "r", "a", "g", "e", " ", "1", "2">>

BankHeader == <<<<"c", "1">>, <<"c", "2">>, <<"c", "3">>>>

\* the bank rows: date cell, description, amount cell
BankRows ==
    {<<TextCell(Text_01_02_2024), TextCell(Text_Garage12), TextCell(Text_Plus5000)>>,
     <<TextCell(Text_04_02_2024), TextCell(Text_Garage12), TextCell(Text_Plus5000)>>,
     <<TextCell(Text_01_02_2024), TextCell(Text_Garage12), TextCell(Text_Plus5000_01)>>,
     <<TextCell(Text_31_02_2024), TextCell(Text_Garage12), TextCell(Text_Plus3000)>>,
     <<TextCell(Text_Total), NanCell, TextCell(Text_Minus1200)>>}

BankTables == {DataFrame(BankHeader, rows) : rows \in SeqsUpTo(BankRows, MaxBank)}

\* what date.today() returns
Todays == {Date(2024, 2, 2), Date(2024, 2, 5), Date(2025, 3, 10)}

Next == NextHandler(RentTables, BankTables, Todays)

Spec == Init /\ [][Next]_vars

-----------------------------------------------------------------------------
(* The report of a request *)

\* the obligations of the tracker's rent table: its rows, read by label
ObligationAmount(df, i) == Field(df, df.rows[i], ColPaymentAmount).num

ObligationDate(df, i) == Field(df, df.rows[i], ColPaymentDate).date

\* transaction p has the amount and is within 3 days, before or after, of dt
PaysFor(p, amount, dt) ==
    /\ p.amount = amount
    /\ DaysBetween(p.payment_date, dt) \in -3..3

\* C2: in the report of generate_payment_report every obligation for which
\* the bank transactions hold one of equal amount within 3 days of the
\* adjusted expected date is RECEIVED, whatever the current date.
C2_PaidIsReceived ==
    (last.op = "generate_payment_report" /\ last.raised = "") =>
        LET df == rent_data[1]
            bank == bank_data[1]
            report == payment_report[1]
        IN  \A i \in 1..Len(df.rows) :
                (\E k \in 1..Len(bank) :
                    PaysFor(bank[k], ObligationAmount(df, i),
                            report[i].expected_payment_date))
                    => report[i].status = RECEIVED

\* a paid obligation in a report drawn up more than 3 days after it was due
C2_Witness ==
    /\ last.op = "generate_payment_report"
    /\ last.raised = ""
    /\ \E i \in 1..Len(payment_report[1]) :
          /\ \E k \in 1..Len(bank_data[1]) :
                PaysFor(bank_data[1][k], ObligationAmount(rent_data[1], i),
                        payment_report[1][i].expected_payment_date)
          /\ DaysBetween(last.args.current_date,
                         payment_report[1][i].expected_payment_date) > 3
          /\ payment_report[1][i].status = RECEIVED

\* the date a date cell of the raw rent table names, a calendar date or not
NamedDate(cell) == IF cell.kind = "text" THEN IsoFields(cell.text) ELSE cell.date

\* a day of 29, 30 or 31 past the end of its month
PastMonthEnd(dt) ==
    dt.day \in {29, 30, 31} /\ dt.day > LastDayOfMonth(dt.year, dt.month)

\* C4: an obligation whose day of month is 29, 30 or 31 and exceeds the last
\* day of its month gets the last day of that month as its adjusted expected
\* date, every other date is left as it is, and the adjusted date is a
\* calendar date of the same month and year.  Stated of the rent table the
\* request read, once process_rent_data has been called on it.
C4_MonthEndAdjusted ==
    (last.op = "process_rent_data" /\ reader_rent_data # None) =>
        LET raw == reader_rent_data[1]
        IN  \A i \in 1..Len(raw.rows) :
                LET named == NamedDate(Field(raw, raw.rows[i], Label_Date))
                IN  /\ last.raised = ""
                    /\ LET adjusted == AdjustPaymentDate(ObligationDate(last.ret, i))
                       IN  /\ adjusted =
                                IF PastMonthEnd(named)
                                THEN Date(named.year, named.month,
                                          LastDayOfMonth(named.year, named.month))
                                ELSE named
                           /\ IsValidDate(adjusted.year, adjusted.month, adjusted.day)

\* what does hold: a date that reaches _adjust_payment_date is a calendar
\* date already and is returned as it is
C4_AdjustmentNeverApplies ==
    (last.op = "generate_payment_report" /\ last.raised = "") =>
        \A i \in 1..Len(rent_data[1].rows) :
            /\ ~PastMonthEnd(ObligationDate(rent_data[1], i))
            /\ payment_report[1][i].expected_payment_date =
                 ObligationDate(rent_data[1], i)

\* the report row the claim describes for obligation i
ExpectedRow(df, bank, i, current_date) ==
    LET dt == AdjustPaymentDate(ObligationDate(df, i))
        hits == {k \in 1..Len(bank) : PaysFor(bank[k], ObligationAmount(df, i), dt)}
        first == CHOOSE k \in hits : \A j \in hits : k <= j
    IN  [garage_name |-> Field(df, df.rows[i], ColGarageName),
         expected_payment_date |-> dt,
         payment_amount |-> ObligationAmount(df, i),
         status |-> IF hits # {} THEN RECEIVED
                    ELSE IF DaysBetween(current_date, dt) > 3 THEN OVERDUE
                    ELSE NOT_DUE,
         tenant_name |-> Field(df, df.rows[i], ColTenantName),
         actual_payment_date |-> IF hits # {} THEN Some(bank[first].payment_date)
                                 ELSE None]

\* the report holds one row per obligation, in order, as the claim describes
RowsAsDescribed(report, df, bank, current_date) ==
    /\ Len(report) = Len(df.rows)
    /\ \A i \in 1..Len(df.rows) :
          /\ report[i] = ExpectedRow(df, bank, i, current_date)
          /\ (report[i].actual_payment_date # None) <=> (report[i].status = RECEIVED)

\* C5: for every rent table of n >= 0 obligations and every bank transaction
\* set, generate_payment_report after set_data returns exactly n rows, the
\* i-th describing the i-th obligation (garage, amount, tenant, adjusted
\* date, status), actual_payment_date being the matched transaction's date
\* when there is a match and none otherwise.
C5_OneRowPerObligation ==
    (last.op = "generate_payment_report" /\ rent_data # None /\ bank_data # None) =>
        /\ last.raised = ""
        /\ RowsAsDescribed(last.ret, rent_data[1], bank_data[1],
                           last.args.current_date)

\* what does hold: the same for n >= 1
C5_HoldsForNonEmpty ==
    (/\ last.op = "generate_payment_report"
     /\ rent_data # None /\ bank_data # None
     /\ Len(rent_data[1].rows) >= 1) =>
        /\ last.raised = ""
        /\ RowsAsDescribed(last.ret, rent_data[1], bank_data[1],
                           last.args.current_date)

-----------------------------------------------------------------------------
(* Requests with varied bank statements: three column layouts, date cells   *)
(* with and without a DD.MM.YYYY date, amount cells of every sign.          *)

MaxStatementRows == 2

Text_15_01_2024 == <<"1", "5", ".", "0", "1", ".", "2", "0", "2", "4">>

Text_Paid_16_01_2024 ==
    <<"RU_O", "ru_p", "ru_l", "ru_a", "ru_t", "ru_a", " ", "1", "6", ".", "0", "1", ".", "2", "0", "2", "4", " ", "1", "2", ":", "3", "0">>

Text_Plus2750 == <<"+", "2", " ", "7", "5", "0", ",", "0", "0">>

Text_Zero == <<"0", ",", "0", "0">>

Text_abc == <<"a", "b", "c">>

Text_1_200_00 == <<"1", ",", "2", "0", "0", ",", "0", "0">>

\* the kinds of statement row, as the pair of a date cell and an amount cell:
\* two incoming payments, a negative and a zero amount, 31.02.2024 (the shape
\* of a date, naming none), a row without a date, abc (no number) and
\* 1,200,00 (it becomes 1.200.00, which float refuses)
StatementRowKinds ==
    {<<TextCell(Text_15_01_2024), TextCell(Text_Plus2750)>>,
     <<TextCell(Text_Paid_16_01_2024), NumCell(Amount5000)>>,
     <<TextCell(Text_15_01_2024), TextCell(Text_Minus1200)>>,
     <<TextCell(Text_Paid_16_01_2024), TextCell(Text_Zero)>>,
     <<TextCell(Text_31_02_2024), TextCell(Text_Plus2750)>>,
     <<TextCell(Text_Total), TextCell(Text_Plus2750)>>,
     <<TextCell(Text_15_01_2024), TextCell(Text_abc)>>,
     <<TextCell(Text_Paid_16_01_2024), TextCell(Text_1_200_00)>>}

StatementLayouts ==
    {<<"date", "description", "amount">>, <<"amount", "date">>,
     <<"description", "date", "amount">>}

\* a statement row in a layout, da being the kind of the row
StatementRow(layout, da) ==
    [c \in 1..Len(layout) |->
        CASE layout[c] = "date" -> da[1]
          [] layout[c] = "amount" -> da[2]
          [] layout[c] = "description" -> TextCell(Text_Garage12)]

StatementTables ==
    {EmptyFrame} \cup
    {DataFrame(SubSeq(BankHeader, 1, Len(layout)),
               [r \in 1..Len(das) |-> StatementRow(layout, das[r])]) :
        layout \in StatementLayouts,
        das \in SeqsUpTo(StatementRowKinds, MaxStatementRows)}

\* one rent table with one obligation
OneObligation ==
    DataFrame(RentHeader,
              <<<<TextCell(Text_A1), NumCell(Amount5000),
                  TimestampCell(Date(2024, 1, 15))>>>>)

NextBank == NextHandler({OneObligation}, StatementTables, {Date(2024, 1, 20)})

SpecBank == Init /\ [][NextBank]_vars

\* the cell of row r in the detected date column holds a DD.MM.YYYY text
IsDateBearing(df, r) ==
    LET detected == DetectBankStatementColumns(df)
    IN  detected.date # 0
          /\ SearchDatePattern(StrOf(df.rows[r][detected.date])) # 0

\* the date the first DD.MM.YYYY text of row r names, a calendar date or not
StatementDate(df, r) ==
    LET t == StrOf(df.rows[r][DetectBankStatementColumns(df).date])
        at == SearchDatePattern(t)
    IN  Date(DigitsVal(SubSeq(t, at + 6, at + 9)), DigitsVal(SubSeq(t, at + 3, at + 4)),
             DigitsVal(SubSeq(t, at, at + 1)))

\* the amount cell of row r parses to a number
AmountParses(df, r) ==
    LET m == SearchAmount(StrOf(df.rows[r][DetectBankStatementColumns(df).amount]))
    IN  m # None /\ IsFloatText(Replace(Replace(m[1], " ", <<>>), ",", <<".">>))

\* the number it parses to
ParsedAmount(df, r) ==
    LET m == SearchAmount(StrOf(df.rows[r][DetectBankStatementColumns(df).amount]))
    IN  FloatValue(Replace(Replace(m[1], " ", <<>>), ",", <<".">>))

\* the transactions are those of the rows kept, in the order of the rows
TransactionsOf(ret, df, kept) ==
    /\ Len(ret) = Cardinality(kept)
    /\ \A r \in kept :
          LET j == Cardinality({k \in kept : k <= r})
          IN  /\ j <= Len(ret)
              /\ ret[j].amount = ParsedAmount(df, r)
              /\ IsValidDate(StatementDate(df, r).year, StatementDate(df, r).month,
                             StatementDate(df, r).day)
                   => ret[j].payment_date = StatementDate(df, r)

\* C8 as stated: every transaction process_bank_statement_data returns has a
\* strictly positive amount, a row whose amount parses to zero or less never
\* appears, and every date-bearing row whose amount parses to a positive
\* number does appear, in bank-table order.
C8_EveryPositiveDatedRow ==
    (last.op = "process_bank_statement_data" /\ last.raised = "") =>
        LET df == bank_statement_data[1]
            kept == {r \in 1..Len(df.rows) :
                        /\ IsDateBearing(df, r)
                        /\ AmountParses(df, r)
                        /\ ParsedAmount(df, r) > 0}
        IN  /\ \A j \in 1..Len(last.ret) : last.ret[j].amount > 0
            /\ TransactionsOf(last.ret, df, kept)

\* C8 amended: the same, the rows that appear being the date-bearing rows
\* whose DD.MM.YYYY text names a calendar date and whose amount parses to a
\* positive number.
C8_PositiveRowsWithRealDate ==
    (last.op = "process_bank_statement_data" /\ last.raised = "") =>
        LET df == bank_statement_data[1]
            kept == {r \in 1..Len(df.rows) :
                        /\ IsDateBearing(df, r)
                        /\ IsValidDate(StatementDate(df, r).year,
                                       StatementDate(df, r).month,
                                       StatementDate(df, r).day)
                        /\ AmountParses(df, r)
                        /\ ParsedAmount(df, r) > 0}
        IN  /\ \A j \in 1..Len(last.ret) : last.ret[j].amount > 0
            /\ TransactionsOf(last.ret, df, kept)

\* a statement of two dated rows, the first of a negative amount: only the
\* second is returned
C8_Witness ==
    /\ last.op = "process_bank_statement_data"
    /\ last.raised = ""
    /\ Len(bank_statement_data[1].rows) = 2
    /\ IsDateBearing(bank_statement_data[1], 1)
    /\ AmountParses(bank_statement_data[1], 1)
    /\ ParsedAmount(bank_statement_data[1], 1) < 0
    /\ Len(last.ret) = 1
    /\ last.ret[1].amount = ParsedAmount(bank_statement_data[1], 2)

\* no cell of the table holds a DD.MM.YYYY text
NoDateBearingRow(df) ==
    \A r \in 1..Len(df.rows) : \A c \in 1..Len(df.columns) :
        SearchDatePattern(StrOf(df.rows[r][c])) = 0

\* C9: for a bank statement with no date-bearing row (the empty table
\* included) process_bank_statement_data returns an empty transaction set
\* rather than failing, and the report drawn from it has no RECEIVED row.
C9_NoDatesGivesEmptySet ==
    (bank_statement_data # None /\ NoDateBearingRow(bank_statement_data[1])) =>
        /\ last.op = "process_bank_statement_data" =>
             (last.raised = "" /\ last.ret = <<>>)
        /\ last.op = "generate_payment_report" =>
             /\ last.raised = ""
             /\ \A i \in 1..Len(last.ret) : last.ret[i].status # RECEIVED

\* what does hold: such a statement is refused for want of a date column
C9_NoDatesIsRefused ==
    (/\ last.op = "process_bank_statement_data"
     /\ bank_statement_data # None
     /\ NoDateBearingRow(bank_statement_data[1])) =>
        (last.raised = "ValueError" /\ last.msg = MsgNoDateColumn)

-----------------------------------------------------------------------------
(* Requests with varied rent headers: labels in two languages and both      *)
(* cases, labels matching no field, and a label matching two fields.        *)

MaxRentColumns == 3

MaxRentRows == 1

Label_GarageNumber == <<"G", "a", "r", "a", "g", "e", " ", "N", "u", "m", "b", "e", "r">>

Label_AMOUNT == <<"A", "M", "O", "U", "N", "T">>

Label_DateEn == <<"D", "a", "t", "e">>

Label_Notes == <<"N", "o", "t", "e", "s">>

\* holds a garage keyword and a date keyword
Label_GarageDate == <<"G", "a", "r", "a", "g", "e", " ", "d", "a", "t", "e">>

RentLabels ==
    {Label_Garage, Label_GarageNumber, Label_Amount, Label_AMOUNT, Label_Date,
     Label_DateEn, Label_Notes, Label_GarageDate}

\* pandas gives the columns of one sheet distinct labels
RentHeaders ==
    {h \in SeqsUpTo(RentLabels, MaxRentColumns) :
        \A i, j \in 1..Len(h) : i # j => h[i] # h[j]}

\* the cell a sheet holds under a label, d being the date cell of the row
RentCellUnder(label, d) ==
    CASE label \in {Label_Garage, Label_GarageNumber} -> TextCell(Text_A1)
      [] label \in {Label_Amount, Label_AMOUNT} -> NumCell(Amount5000)
      [] label \in {Label_Date, Label_DateEn, Label_GarageDate} -> d
      [] OTHER -> TextCell(Text_Garage12)

RentDateCells == {TimestampCell(Date(2024, 1, 15)), TextCell(Text_2024_04_31)}

HeaderTables ==
    {DataFrame(h, [r \in 1..Len(ds) |->
                     [c \in 1..Len(h) |-> RentCellUnder(h[c], ds[r])]]) :
        h \in RentHeaders, ds \in SeqsUpTo(RentDateCells, MaxRentRows)}

\* one statement with one incoming payment
OnePayment ==
    DataFrame(SubSeq(BankHeader, 1, 3),
              <<<<TextCell(Text_15_01_2024), TextCell(Text_Garage12),
                  TextCell(Text_Plus5000)>>>>)

NextRent == NextHandler(HeaderTables, {OnePayment}, {Date(2024, 1, 20)})

SpecRent == Init /\ [][NextRent]_vars

RentFields == {"garage_name", "payment_amount", "payment_date"}

\* the positions of the columns whose lower-cased label holds a keyword of f
ColumnsMatching(df, f) ==
    {c \in 1..Len(df.columns) :
        ContainsAny(Lower(df.columns[c]), FieldKeywords(f))}

FieldsWithoutColumn(df) == {f \in RentFields : ColumnsMatching(df, f) = {}}

\* detection maps every field to its first matching column and no other field
MapsToFirstColumn(df) ==
    LET detected == DetectRentColumns(df)
    IN  /\ DOMAIN detected = RentFields \ FieldsWithoutColumn(df)
        /\ \A f \in DOMAIN detected :
              \E c \in ColumnsMatching(df, f) :
                  /\ \A k \in ColumnsMatching(df, f) : c <= k
                  /\ detected[f] = df.columns[c]

\* the error names exactly the fields without a column and lists all labels
NamesMissingFields(df) ==
    /\ last.raised = "ValueError"
    /\ last.msg = MsgMissingColumns
    /\ {last.info.missing[i] : i \in 1..Len(last.info.missing)}
         = FieldsWithoutColumn(df)
    /\ Len(last.info.missing) = Cardinality(FieldsWithoutColumn(df))
    /\ last.info.available = df.columns
    /\ processed_rent_data = None

\* C10 as stated: detection maps each field to the first column, in column
\* order, whose lower-cased label contains one of its keywords;
\* process_rent_data fails if and only if a field has no such column, the
\* error then naming exactly those fields and all column labels, and
\* processed_rent_data staying as it was.
C10_FailsIffFieldMissing ==
    (last.op = "process_rent_data" /\ reader_rent_data # None) =>
        LET df == reader_rent_data[1]
        IN  /\ MapsToFirstColumn(df)
            /\ (last.raised # "") <=> (FieldsWithoutColumn(df) # {})
            /\ FieldsWithoutColumn(df) # {} => NamesMissingFields(df)

\* C10 amended: process_rent_data fails with the missing-column error if and
\* only if a field has no such column; with every field found it can still
\* fail, on the values of the date column or on two columns renamed alike.
C10_MissingColumnErrorIffFieldMissing ==
    (last.op = "process_rent_data" /\ reader_rent_data # None) =>
        LET df == reader_rent_data[1]
        IN  /\ MapsToFirstColumn(df)
            /\ (last.msg = MsgMissingColumns) <=> (FieldsWithoutColumn(df) # {})
            /\ FieldsWithoutColumn(df) # {} => NamesMissingFields(df)
            /\ last.raised # "" => processed_rent_data = None

\* a header with two garage columns and no amount column is refused, the
\* error naming the amount alone
C10_Witness ==
    /\ last.op = "process_rent_data"
    /\ reader_rent_data # None
    /\ Cardinality(ColumnsMatching(reader_rent_data[1], "garage_name")) = 2
    /\ FieldsWithoutColumn(reader_rent_data[1]) = {"payment_amount"}
    /\ last.msg = MsgMissingColumns
    /\ Len(last.info.missing) = 1

-----------------------------------------------------------------------------
(* The two services called in any order, by a caller that keeps to no       *)
(* sequence: every public operation is enabled in every state.              *)

\* a sheet with the three columns and no row
NoObligation == DataFrame(RentHeader, <<>>)

\* one statement with one incoming payment of another amount
OtherPayment ==
    DataFrame(SubSeq(BankHeader, 1, 3),
              <<<<TextCell(Text_15_01_2024), TextCell(Text_Garage12),
                  TextCell(Text_Plus2750)>>>>)

CallRents == {NoObligation, OneObligation}

CallBanks == {OnePayment, OtherPayment}

\* current_date as the caller passes it, None standing for today
CallCurrentDates == {None, Some(Date(2024, 1, 10))}

CallToday == Date(2024, 1, 20)

Call_read_rent_file ==
    /\ \E df \in CallRents, readable \in BOOLEAN : read_rent_file(df, readable)
    /\ UNCHANGED handlerVars

Call_read_bank_statement_file ==
    /\ \E df \in CallBanks, readable \in BOOLEAN :
          read_bank_statement_file(df, readable)
    /\ UNCHANGED handlerVars

Call_process_rent_data == process_rent_data /\ UNCHANGED handlerVars

Call_process_bank_statement_data ==
    process_bank_statement_data /\ UNCHANGED handlerVars

\* the caller passes what the reader last produced, or nothing
Call_set_data ==
    /\ \E r \in {None, processed_rent_data}, b \in {None, processed_bank_data} :
          set_data(r, b)
    /\ UNCHANGED handlerVars

Call_generate_payment_report ==
    /\ \E current_date \in CallCurrentDates :
          generate_payment_report(current_date, CallToday)
    /\ UNCHANGED handlerVars

Call_get_payment_summary == get_payment_summary /\ UNCHANGED handlerVars

Call_get_overdue_payments == get_overdue_payments /\ UNCHANGED handlerVars

Call_export_report_to_excel == export_report_to_excel /\ UNCHANGED handlerVars

NextCalls ==
    \/ Call_read_rent_file
    \/ Call_read_bank_statement_file
    \/ Call_process_rent_data
    \/ Call_process_bank_statement_data
    \/ Call_set_data
    \/ Call_generate_payment_report
    \/ Call_get_payment_summary
    \/ Call_get_overdue_payments
    \/ Call_export_report_to_excel

SpecCalls == Init /\ [][NextCalls]_vars

\* the number of rows of a report with a status
RowsWithStatus(report, status) ==
    Cardinality({i \in 1..Len(report) : report[i].status = status})

\* the summary counts the rows of the report, status by status
SummaryCountsRows(summary, report) ==
    /\ summary.total_garages = Len(report)
    /\ summary.received_payments = RowsWithStatus(report, RECEIVED)
    /\ summary.overdue_payments = RowsWithStatus(report, OVERDUE)
    /\ summary.not_due_payments = RowsWithStatus(report, NOT_DUE)
    /\ summary.received_payments + summary.overdue_payments
         + summary.not_due_payments = summary.total_garages

\* C6: once a report has been generated, get_payment_summary returns
\* total_garages equal to the number of report rows and each status count
\* equal to the number of rows with that status, 0 for a status in no row,
\* the three counts adding up to total_garages, for every report.
C6_SummaryCountsRows ==
    (last.op = "get_payment_summary" /\ payment_report # None) =>
        /\ last.raised = ""
        /\ SummaryCountsRows(last.ret, payment_report[1])

\* what does hold: the same for every report of at least one row
C6_HoldsForNonEmpty ==
    (/\ last.op = "get_payment_summary"
     /\ payment_report # None
     /\ Len(payment_report[1]) > 0) =>
        /\ last.raised = ""
        /\ SummaryCountsRows(last.ret, payment_report[1])

PreconditionMessages ==
    {MsgDataNotSet, MsgNoReport, MsgRentNotLoaded, MsgBankNotLoaded}

\* the message of the precondition error of an operation
PreconditionMessage(op) ==
    CASE op = "generate_payment_report" -> MsgDataNotSet
      [] op \in {"get_payment_summary", "get_overdue_payments",
                 "export_report_to_excel"} -> MsgNoReport
      [] op = "process_rent_data" -> MsgRentNotLoaded
      [] op = "process_bank_statement_data" -> MsgBankNotLoaded
      [] OTHER -> ""

\* what an operation needs has not been supplied
OutOfOrder(op) ==
    CASE op = "generate_payment_report" -> rent_data = None \/ bank_data = None
      [] op \in {"get_payment_summary", "get_overdue_payments",
                 "export_report_to_excel"} -> payment_report = None
      [] op = "process_rent_data" -> reader_rent_data = None
      [] op = "process_bank_statement_data" -> bank_statement_data = None
      [] OTHER -> FALSE

\* C7: a call made out of order fails with its precondition error and
\* changes no service state; a call made in order raises no precondition
\* error. What a call needs is supplied by the call the order names and by
\* no other: the raw tables by a read that returned, the tracker's data by
\* set_data, the report by generate_payment_report.
C7_OutOfOrderCallsFail ==
    [][LET op == last'.op
           failed == /\ last'.raised = "ValueError"
                     /\ last'.msg \in PreconditionMessages
       IN  /\ failed <=> OutOfOrder(op)
           /\ failed => /\ last'.msg = PreconditionMessage(op)
                        /\ UNCHANGED <<readerVars, trackerVars>>
           /\ reader_rent_data' # reader_rent_data =>
                (last'.op = "read_rent_file" /\ last'.raised = "")
           /\ bank_statement_data' # bank_statement_data =>
                (last'.op = "read_bank_statement_file" /\ last'.raised = "")
           /\ (rent_data' # rent_data \/ bank_data' # bank_data) =>
                last'.op = "set_data"
           /\ payment_report' # payment_report =>
                last'.op = "generate_payment_report"]_vars

\* generate_payment_report refused after set_data supplied rent data alone
C7_Witness ==
    /\ last.op = "generate_payment_report"
    /\ last.raised = "ValueError"
    /\ last.msg = MsgDataNotSet
    /\ rent_data # None
    /\ bank_data = None
    /\ payment_report = None

-----------------------------------------------------------------------------
(* Requests in which obligations share an amount: two garages rented at     *)
(* 5000 and due two days apart, and statements of one or two payments.      *)

MaxShareRent == 2

MaxShareBank == 2

ShareRentRows ==
    {<<TextCell(Text_A1), NumCell(Amount5000), TimestampCell(Date(2024, 1, 15))>>,
     <<TextCell(Text_B2), NumCell(Amount5000), TimestampCell(Date(2024, 1, 17))>>,
     <<TextCell(Text_B2), NumCell(Amount3000), TimestampCell(Date(2024, 1, 15))>>}

ShareRentTables ==
    {DataFrame(RentHeader, rows) : rows \in SeqsUpTo(ShareRentRows, MaxShareRent)}

ShareBankRows ==
    {<<TextCell(Text_15_01_2024), TextCell(Text_Garage12), TextCell(Text_Plus5000)>>,
     <<TextCell(Text_Paid_16_01_2024), TextCell(Text_Garage12), TextCell(Text_Plus3000)>>,
     <<TextCell(Text_04_02_2024), TextCell(Text_Garage12), TextCell(Text_Plus5000)>>}

ShareBankTables ==
    {DataFrame(SubSeq(BankHeader, 1, 3), rows) :
        rows \in SeqsUpTo(ShareBankRows, MaxShareBank) \ {<<>>}}

NextShare == NextHandler(ShareRentTables, ShareBankTables, {Date(2024, 1, 25)})

SpecShare == Init /\ [][NextShare]_vars

\* C11: generate_payment_report leaves the bank transactions and the rent
\* table as they were, and every row of its report is the row its obligation
\* gets from the full transaction set, whatever obligations came before it.
C11_MatchingConsumesNothing ==
    [][last'.op = "generate_payment_report" =>
          /\ rent_data' = rent_data
          /\ bank_data' = bank_data
          /\ last'.raised = "" =>
               /\ Len(last'.ret) = Len(rent_data[1].rows)
               /\ \A i \in 1..Len(rent_data[1].rows) :
                     last'.ret[i] = ExpectedRow(rent_data[1], bank_data[1], i,
                                                last'.args.current_date)]_vars

\* one transaction, two obligations, both RECEIVED on the date of that one
C11_Witness ==
    /\ last.op = "generate_payment_report"
    /\ last.raised = ""
    /\ Len(bank_data[1]) = 1
    /\ Len(last.ret) = 2
    /\ last.ret[1].garage_name # last.ret[2].garage_name
    /\ \A i \in 1..2 :
          /\ last.ret[i].status = RECEIVED
          /\ last.ret[i].actual_payment_date = Some(bank_data[1][1].payment_date)

-----------------------------------------------------------------------------
(* Rows of a statement that fail extraction *)

\* row r holds a DD.MM.YYYY text in the date column and yields no payment
\* date or no amount: the text names no calendar date, or the amount cell
\* holds no number that parses
FailsExtraction(df, r) ==
    /\ IsDateBearing(df, r)
    /\ \/ ~IsValidDate(StatementDate(df, r).year, StatementDate(df, r).month,
                       StatementDate(df, r).day)
       \/ ~AmountParses(df, r)

\* row r yields a date and a positive amount
WellFormedPositive(df, r) ==
    /\ IsDateBearing(df, r)
    /\ ~FailsExtraction(df, r)
    /\ ParsedAmount(df, r) > 0

\* C12: when a row of a statement whose date and amount columns are detected
\* fails date or amount extraction, process_bank_statement_data still
\* returns normally, and returns exactly the transactions of the rows that
\* yield a date and a positive amount, in the order of the table.
C12_BadRowsAreSkipped ==
    (/\ last.op = "process_bank_statement_data"
     /\ bank_statement_data # None
     /\ DetectBankStatementColumns(bank_statement_data[1]).date # 0
     /\ DetectBankStatementColumns(bank_statement_data[1]).amount # 0
     /\ \E r \in 1..Len(bank_statement_data[1].rows) :
           FailsExtraction(bank_statement_data[1], r)) =>
        LET df == bank_statement_data[1]
        IN  /\ last.raised = ""
            /\ TransactionsOf(last.ret, df,
                              {r \in 1..Len(df.rows) : WellFormedPositive(df, r)})

\* a first row that fails extraction and a second that does not: the
\* transaction of the second is returned
C12_Witness ==
    /\ last.op = "process_bank_statement_data"
    /\ last.raised = ""
    /\ Len(bank_statement_data[1].rows) = 2
    /\ FailsExtraction(bank_statement_data[1], 1)
    /\ WellFormedPositive(bank_statement_data[1], 2)
    /\ Len(last.ret) = 1
    /\ last.ret[1].payment_date = StatementDate(bank_statement_data[1], 2)

-----------------------------------------------------------------------------
(* The /generate endpoint: the check of the two file names, the services    *)
(* called in the order of the handler, and the response.                    *)

\* str.endswith(suffix)
EndsWith(s, suffix) ==
    /\ Len(s) >= Len(suffix)
    /\ SubSeq(s, Len(s) - Len(suffix) + 1, Len(s)) = suffix

ExcelSuffixes == {<<".", "x", "l", "s", "x">>, <<".", "x", "l", "s">>}

\* filename.endswith((".xlsx", ".xls"))
IsExcelName(filename) == \E suffix \in ExcelSuffixes : EndsWith(filename, suffix)

MsgRentNotExcel == "Rent file must be Excel format (.xlsx or .xls)"

MsgBankNotExcel == "Bank statement file must be Excel format (.xlsx or .xls)"

\* the exception the try block raises on the two file names, None when the
\* names pass: HTTPException(status_code=400, detail=...)
ValidateFileTypes(rent_name, bank_name) ==
    IF ~IsExcelName(rent_name)
    THEN Some([type |-> "HTTPException", status_code |-> 400,
               detail |-> MsgRentNotExcel])
    ELSE IF ~IsExcelName(bank_name)
    THEN Some([type |-> "HTTPException", status_code |-> 400,
               detail |-> MsgBankNotExcel])
    ELSE None

\* except Exception as e: raise HTTPException(status_code=500, ...); every
\* exception raised in the try block is an Exception, HTTPException included
ErrorResponse(args, e) ==
    RaisedWith("generate_report", args, "HTTPException",
               "Error generating report",
               [status_code |-> 500, cause |-> e])

\* the handler up to the temporary files: names that pass let the request
\* go on, names that do not end it with the response of the except clause
Endpoint_validate(Names) ==
    /\ pc = "request"
    /\ \E rent_name \in Names, bank_name \in Names :
          LET args == [rent_file |-> rent_name, bank_statement_file |-> bank_name]
              e == ValidateFileTypes(rent_name, bank_name)
          IN  IF e = None
              THEN pc' = "start" /\ UNCHANGED last
              ELSE pc' = "responded" /\ last' = ErrorResponse(args, e[1])
    /\ UNCHANGED <<readerVars, trackerVars, processed_rent, processed_bank>>

\* the end of the handler: the FileResponse, or the response of the except
\* clause to the exception of a service
Endpoint_respond ==
    /\ pc \in {"done", "failed"}
    /\ pc' = "responded"
    /\ last' = IF pc = "done"
               THEN Returned("generate_report", <<>>, [status_code |-> 200])
               ELSE ErrorResponse(<<>>, [type |-> last.raised, op |-> last.op])
    /\ UNCHANGED <<readerVars, trackerVars, processed_rent, processed_bank>>

InitEndpoint ==
    /\ reader_rent_data = None
    /\ bank_statement_data = None
    /\ processed_rent_data = None
    /\ processed_bank_data = None
    /\ rent_data = None
    /\ bank_data = None
    /\ payment_report = None
    /\ pc = "request"
    /\ processed_rent = None
    /\ processed_bank = None
    /\ last = Returned("__init__", <<>>, None)

\* names with each suffix, with another, in capitals and without the dot
FileNames == {<<"r", "e", "n", "t", ".", "x", "l", "s", "x">>, <<"b", "a", "n", "k", ".", "x", "l", "s">>, <<"r", "e", "n", "t", ".", "c", "s", "v">>, <<"R", "E", "N", "T", ".", "X", "L", "S", "X">>, <<"x", "l", "s", "x">>}

NextEndpoint ==
    \/ Endpoint_validate(FileNames)
    \/ NextHandler(ShareRentTables, ShareBankTables, {Date(2024, 1, 25)})
    \/ Endpoint_respond

SpecEndpoint == InitEndpoint /\ [][NextEndpoint]_vars

\* the status code of the response of a request that has been answered
StatusCode == IF last.raised = "" THEN last.ret.status_code ELSE last.info.status_code

\* the request was refused for the name of one of its files
RefusedForFileName ==
    /\ last.args # <<>>
    /\ \/ ~IsExcelName(last.args.rent_file)
       \/ ~IsExcelName(last.args.bank_statement_file)

\* C13: the endpoint answers an upload whose rent or bank statement file
\* name does not end in .xlsx or .xls with status 400, and answers 500 only
\* when reading, processing or report generation failed.
C13_BadFileNameIs400 ==
    pc = "responded" =>
        /\ RefusedForFileName => StatusCode = 400
        /\ StatusCode = 500 => ~RefusedForFileName

\* what does hold: such an upload is answered with status 500, the 400 of
\* the check being the cause the except clause wraps
C13_BadFileNameIs500 ==
    (pc = "responded" /\ RefusedForFileName) =>
        /\ StatusCode = 500
        /\ last.info.cause.status_code = 400

-----------------------------------------------------------------------------
(* The columns of the table process_rent_data returns *)

CanonicalColumns == {ColGarageName, ColPaymentAmount, ColPaymentDate, ColTenantName}

\* the three fields are detected on three columns
OnDistinctColumns(df) ==
    LET detected == DetectRentColumns(df)
    IN  /\ DOMAIN detected = RentFields
        /\ \A f, g \in RentFields : f # g => detected[f] # detected[g]

\* C14: whenever process_rent_data returns without error the three fields
\* were detected on three distinct columns and the table returned has the
\* columns garage_name, payment_amount, payment_date and tenant_name, so
\* that generate_payment_report reads every field of every row; for every
\* set of labels, a label with keywords of two fields included.
C14_FieldsOnDistinctColumns ==
    /\ (last.op = "process_rent_data" /\ last.raised = "") =>
          /\ OnDistinctColumns(reader_rent_data[1])
          /\ \A name \in CanonicalColumns : HasColumn(last.ret, name)
    /\ (last.op = "generate_payment_report" /\ last.raised # "") =>
          last.raised # "KeyError" \/ Len(rent_data[1].rows) = 0

\* what does hold: the table returned lacks a canonical column exactly when
\* two fields were detected on one column, and generate_payment_report then
\* fails on the first row
C14_SharedColumnLosesField ==
    /\ (last.op = "process_rent_data" /\ last.raised = "") =>
          (OnDistinctColumns(reader_rent_data[1])
             <=> \A name \in CanonicalColumns : HasColumn(last.ret, name))
    /\ (last.op = "generate_payment_report" /\ Len(rent_data[1].rows) > 0) =>
          ((last.raised = "KeyError")
             <=> \E name \in CanonicalColumns : ~HasColumn(rent_data[1], name))

-----------------------------------------------------------------------------
(* Results and the data they were drawn from *)

\* the dates a report of the caller can be drawn up for
CallDates == {CallToday} \cup {d[1] : d \in CallCurrentDates \ {None}}

\* the report held is one generated from the data set_data passed last
ReportOfCurrentData ==
    /\ rent_data # None
    /\ bank_data # None
    /\ payment_report # None
    /\ \E current_date \in CallDates :
          RowsAsDescribed(payment_report[1], rent_data[1], bank_data[1],
                          current_date)

\* C15: in every sequence of calls on one PaymentTrackerService, a summary
\* or an overdue list that is returned describes a report generated from the
\* rent and bank data most recently passed to set_data; after set_data with
\* new data get_payment_summary does not return the counts of the report of
\* the previous data.
C15_NoStaleResult ==
    (/\ last.op \in {"get_payment_summary", "get_overdue_payments"}
     /\ last.raised = ""
     /\ rent_data # None
     /\ bank_data # None) =>
        /\ ReportOfCurrentData
        /\ last.op = "get_payment_summary" =>
             SummaryCountsRows(last.ret, payment_report[1])
        /\ last.op = "get_overdue_payments" =>
             last.ret = SelectSeq(payment_report[1], LAMBDA e : e.status = OVERDUE)

\* what does hold: set_data leaves the report of the previous data in place,
\* and the summary and the overdue list are drawn from the report held
C15_SetDataKeepsReport ==
    [][/\ last'.op = "set_data" => payment_report' = payment_report
       /\ (last'.op = "get_payment_summary" /\ last'.raised = "") =>
            SummaryCountsRows(last'.ret, payment_report[1])]_vars

=============================================================================
